---- MODULE Spec2Model ----
(***************************************************************************)
(* Field arithmetic of p751sidh (field.go): the prime field F_p and its    *)
(* quadratic extension F_{p^2}, elements in Montgomery form, every         *)
(* operation writing through a destination pointer that may alias its      *)
(* operands.                                                               *)
(*                                                                         *)
(* Storage is one memory `mem` of fp751Element cells.  A PrimeFieldElement *)
(* is one cell; an ExtensionFieldElement is a pair of cells (a, b).  Every *)
(* method is an operator from memory to memory that reads and writes       *)
(* through the addresses it is given, statement by statement, so that an   *)
(* aliased destination is overwritten exactly when the code overwrites it. *)
(* Locals of a method live in cells of its own frame.                      *)
(*                                                                         *)
(* The word-level primitives (fp751Mul, fp751MontgomeryReduce, ...) are    *)
(* assembly outside field.go; they are modelled from their contracts.      *)
(* TLC has no 751-bit integers, so the residues are taken modulo the       *)
(* prime 11 instead of p = 2^372*3^239 - 1.  11 is chosen because          *)
(* 11 = 3 (mod 4) and 10 divides p - 1 with odd quotient: the exponents    *)
(* p - 2 and (p + 1)/4 that the code's fixed addition chain realises act   *)
(* on Z/11 as they act on F_p (inversion, square root).  The chain's       *)
(* exponent itself is computed exactly, as a bit string.                   *)
(***************************************************************************)
EXTENDS Integers, Sequences, FiniteSets, TLC

\* ------------------------------------------------------------------------
\* Exponents, exact: natural numbers as little-endian sequences of limbs
\* below LimbBase, the last limb nonzero (<<>> is 0).
\* ------------------------------------------------------------------------

LimbBase == 2 ^ 24

BigOne == <<1>>

BigLimb(a, i) == IF i <= Len(a) THEN a[i] ELSE 0

\* The limbs of a + b from position i on, with carry c into position i.
RECURSIVE BigAddFrom(_, _, _, _)
BigAddFrom(a, b, i, c) ==
    IF c = 0 /\ i > Len(b) THEN SubSeq(a, i, Len(a))
    ELSE IF c = 0 /\ i > Len(a) THEN SubSeq(b, i, Len(b))
    ELSE LET s == BigLimb(a, i) + BigLimb(b, i) + c
         IN  <<s % LimbBase>> \o BigAddFrom(a, b, i + 1, s \div LimbBase)

\* a + b
BigAdd(a, b) == BigAddFrom(a, b, 1, 0)

\* 2a and 3a
BigDouble(a) == BigAdd(a, a)
BigTriple(a) == BigAdd(a, BigAdd(a, a))

\* The limbs of a - 1 from position i on, a having a nonzero limb at or
\* above i.
RECURSIVE BigDecFrom(_, _)
BigDecFrom(a, i) ==
    IF a[i] > 0
    THEN (IF i = Len(a) /\ a[i] = 1 THEN <<>> ELSE <<a[i] - 1>> \o SubSeq(a, i + 1, Len(a)))
    ELSE <<LimbBase - 1>> \o BigDecFrom(a, i + 1)

\* a - 1, for a > 0
BigDec(a) == BigDecFrom(a, 1)

\* The limbs of a \div 2 from position i on.
RECURSIVE BigHalfFrom(_, _)
BigHalfFrom(a, i) ==
    IF i > Len(a) THEN <<>>
    ELSE LET h == (a[i] \div 2) + (BigLimb(a, i + 1) % 2) * (LimbBase \div 2)
         IN  IF i = Len(a) /\ h = 0 THEN <<>> ELSE <<h>> \o BigHalfFrom(a, i + 1)

\* a \div 2
BigHalf(a) == BigHalfFrom(a, 1)

\* a * 2^n and a * 3^n, n >= 0, the n steps taken by halves.
RECURSIVE BigShl(_, _)
BigShl(a, n) ==
    IF n = 0 \/ a = <<>> THEN a
    ELSE IF n = 1 THEN BigDouble(a)
    ELSE BigShl(BigShl(a, n \div 2), n - n \div 2)

RECURSIVE BigMulPow3(_, _)
BigMulPow3(a, n) ==
    IF n = 0 \/ a = <<>> THEN a
    ELSE IF n = 1 THEN BigTriple(a)
    ELSE BigMulPow3(BigMulPow3(a, n \div 2), n - n \div 2)

\* The prime of the package, p = 2^372 * 3^239 - 1.
p751 == BigDec(BigShl(BigMulPow3(BigOne, 239), 372))

\* The number of bits of a limb v >= 1 that has at most n bits.
RECURSIVE LimbBits(_, _)
LimbBits(v, n) == IF v >= 2 ^ (n - 1) THEN n ELSE LimbBits(v, n - 1)

\* The bits of a, little-endian, the last bit 1 (<<>> for 0).
BitsOf(a) ==
    IF a = <<>> THEN <<>>
    ELSE [i \in 1 .. (24 * (Len(a) - 1) + LimbBits(a[Len(a)], 24)) |->
             (a[((i - 1) \div 24) + 1] \div (2 ^ ((i - 1) % 24))) % 2]

\* (p - 3)/4, p - 2 and (p + 1)/4, in bits.
ExpP34 == BitsOf(BigHalf(BigHalf(BigDec(BigDec(BigDec(p751))))))
ExpInv == BitsOf(BigDec(BigDec(p751)))
ExpSqrt == BitsOf(BigHalf(BigHalf(BigAdd(p751, BigOne))))

\* ------------------------------------------------------------------------
\* The ghost exponent of a cell: the cell holds (the operand)^e, e a
\* little-endian bit string, or NoExp when the cell is no tracked power.
\* A product adds exponents.
\* ------------------------------------------------------------------------

NoExp == <<-1>>

ExpOne == <<1>>

ExpBit(a, i) == IF i <= Len(a) THEN a[i] ELSE 0

\* The bits of a from position i on, plus carry c: a carry of 1 turns the
\* ones up to the first zero, at z, into zeros and that zero into a one.
ExpCarryFrom(a, i, c) ==
    IF c = 0 THEN SubSeq(a, i, Len(a))
    ELSE LET z == CHOOSE j \in i .. (Len(a) + 1) :
                      ExpBit(a, j) = 0 /\ \A k \in i .. (j - 1) : a[k] = 1
         IN  [k \in 1 .. (z - i) |-> 0] \o <<1>> \o SubSeq(a, z + 1, Len(a))

\* The bits of a + b from position i on, with carry c into position i.
RECURSIVE ExpAddFrom(_, _, _, _)
ExpAddFrom(a, b, i, c) ==
    IF i > Len(b) THEN ExpCarryFrom(a, i, c)
    ELSE IF i > Len(a) THEN ExpCarryFrom(b, i, c)
    ELSE LET s == a[i] + b[i] + c
         IN  <<s % 2>> \o ExpAddFrom(a, b, i + 1, s \div 2)

ExpAdd(a, b) ==
    IF a = NoExp \/ b = NoExp THEN NoExp
    ELSE IF a = b THEN (IF a = <<>> THEN <<>> ELSE <<0>> \o a)
    ELSE ExpAddFrom(a, b, 1, 0)

\* ------------------------------------------------------------------------
\* Residue layer
\* ------------------------------------------------------------------------

\* The modulus of the residue layer (see the header).
p == 11

\* Bits per limb of the residue layer (64 in the code).
WordBits == 2

\* Limbs per field element.
fp751NumWords == 12

\* The Montgomery radix 2^(fp751NumWords * WordBits), larger than p.
R == 2 ^ (fp751NumWords * WordBits)

\* Values of an fp751Element.
Fp == 0 .. (p - 1)

\* Values of a uint64 argument: one limb.
Uint64 == 0 .. (2 ^ WordBits - 1)

\* R^-1 mod p.
RInv == CHOOSE r \in Fp : (r * (R % p)) % p = 1

\* The machine the methods run on:
\*   cell  the fp751Element cells, a stack: the two globals, the caller's
\*         storage, then the frames of the methods being executed; each
\*         cell holds its value v and, as a ghost, the exponent e for
\*         which v is (the operand)^e;
\*   x2    the fp751X2 cells of the frames, likewise;
\*   junk  what fp751MontgomeryReduce leaves in the input it destroys;
\*   nSq, nMul    calls of PrimeFieldElement.Square and .Mul made;
\*   ops   those calls in order, each with the addresses of its dest and
\*         of its two operands;
\*   nfpMul, nRed calls of fp751Mul and fp751MontgomeryReduce made;
\*   idx   the indices at which P34 read its lookup table, in order;
\*   ks    the arguments k of the calls of Pow2k made, in order;
\*   panic whether an index was out of range (a Go run-time panic).

\* Addresses of the globals montgomeryR and montgomeryRsq.
AddrR == 1
AddrRsq == 2

\* (2^768) mod p in the code: the radix mod p.
montgomeryR == R % p

\* (2^768)^2 mod p in the code.
montgomeryRsq == (R % p) * (R % p) % p

\* The first free addresses.
Top(m) == Len(m.cell) + 1
TopX2(m) == Len(m.x2) + 1

\* A frame of n zero-initialised fp751Element locals and n2 fp751X2
\* locals, as Go's `var` and composite literals give.
Alloc(m, n, n2) ==
    [m EXCEPT !.cell = @ \o [j \in 1 .. n |-> [v |-> 0, e |-> NoExp]],
              !.x2 = @ \o [j \in 1 .. n2 |-> [v |-> 0, e |-> NoExp]]]

\* Leaving that frame.
Free(m, n, n2) ==
    [m EXCEPT !.cell = SubSeq(@, 1, Len(@) - n),
              !.x2 = SubSeq(@, 1, Len(@) - n2)]

\* z = x + y (mod p).
fp751AddReduced(m, z, x, y) ==
    [m EXCEPT !.cell[z] = [v |-> (m.cell[x].v + m.cell[y].v) % p, e |-> NoExp]]

\* z = x - y (mod p).
fp751SubReduced(m, z, x, y) ==
    [m EXCEPT !.cell[z] = [v |-> (m.cell[x].v - m.cell[y].v + p) % p, e |-> NoExp]]

\* z = x + y on double-width values, without reducing mod p.
fp751X2AddLazy(m, z, x, y) ==
    [m EXCEPT !.x2[z] = [v |-> m.x2[x].v + m.x2[y].v, e |-> NoExp]]

\* z = x - y on double-width values, without reducing mod p: a borrow is
\* repaid by adding p to the upper half.
fp751X2SubLazy(m, z, x, y) ==
    LET d == m.x2[x].v - m.x2[y].v
    IN  [m EXCEPT !.x2[z] = [v |-> IF d >= 0 THEN d ELSE d + p * R, e |-> NoExp]]

\* z = x * y, the exact double-width product.
fp751Mul(m, z, x, y) ==
    [m EXCEPT !.x2[z] = [v |-> m.cell[x].v * m.cell[y].v,
                         e |-> ExpAdd(m.cell[x].e, m.cell[y].e)],
              !.nfpMul = @ + 1]

\* z = x R^-1 (mod p).  Destroys the input value.
fp751MontgomeryReduce(m, z, x) ==
    [m EXCEPT !.cell[z] = [v |-> ((m.x2[x].v % p) * RInv) % p, e |-> m.x2[x].e],
              !.x2[x] = [v |-> m.junk, e |-> NoExp],
              !.nRed = @ + 1]

\* Reduce a field element in [0, 2p) to one in [0, p).
fp751StrongReduce(x) == IF x >= p THEN x - p ELSE x

\* fp751Element.vartimeEq, on values
vartimeEq(x, y) == fp751StrongReduce(x) = fp751StrongReduce(y)

\* ------------------------------------------------------------------------
\* Prime field
\* ------------------------------------------------------------------------

\* The fp751Element v with its word 0 set to x: `dest.a[0] = x`.
SetWord0(v, x) == (v \div (2 ^ WordBits)) * (2 ^ WordBits) + x

\* PrimeFieldElement.SetUint64 without `dest.a = fp751Element{}`.
SetUint64NoClear(m, dest, x) ==
    LET xRR == TopX2(m)
        m0 == Alloc(m, 0, 1)
        m2 == [m0 EXCEPT !.cell[dest] = [v |-> SetWord0(m0.cell[dest].v, x), e |-> NoExp]]
        m3 == fp751Mul(m2, xRR, dest, AddrRsq)
        m4 == fp751MontgomeryReduce(m3, dest, xRR)
    IN  Free(m4, 0, 1)

\* PrimeFieldElement.SetUint64
SetUint64(m, dest, x) ==
    LET xRR == TopX2(m)
        m0 == Alloc(m, 0, 1)
        m1 == [m0 EXCEPT !.cell[dest] = [v |-> 0, e |-> NoExp]]
        m2 == [m1 EXCEPT !.cell[dest] = [v |-> SetWord0(m1.cell[dest].v, x), e |-> NoExp]]
        m3 == fp751Mul(m2, xRR, dest, AddrRsq)
        m4 == fp751MontgomeryReduce(m3, dest, xRR)
    IN  Free(m4, 0, 1)

\* PrimeFieldElement.Mul
PrimeMul(m, dest, lhs, rhs) ==
    LET ab == TopX2(m)
        m1 == fp751Mul(Alloc(m, 0, 1), ab, lhs, rhs)
        m2 == fp751MontgomeryReduce(m1, dest, ab)
    IN  [Free(m2, 0, 1) EXCEPT !.nMul = @ + 1,
                               !.ops = Append(@, <<"Mul", dest, lhs, rhs>>)]

\* PrimeFieldElement.Square
PrimeSquare(m, dest, x) ==
    LET ab == TopX2(m)
        m1 == fp751Mul(Alloc(m, 0, 1), ab, x, x)
        m2 == fp751MontgomeryReduce(m1, dest, ab)
    IN  [Free(m2, 0, 1) EXCEPT !.nSq = @ + 1,
                               !.ops = Append(@, <<"Square", dest, x, x>>)]

\* The largest uint8, the type of Pow2k's k and of its loop counter.
MaxUint8 == 255

\* The iterations lo <= i < hi of the loop of Pow2k,
\*   for i := uint8(1); i < k; i++ { dest.Square(dest) }
\* taken by halves; i, below k <= MaxUint8, never wraps.
RECURSIVE Pow2kLoop(_, _, _, _)
Pow2kLoop(m, dest, lo, hi) ==
    IF lo >= hi \/ m.panic THEN m
    ELSE IF hi = lo + 1 THEN PrimeSquare(m, dest, dest)
    ELSE LET mid == (lo + hi) \div 2
         IN  Pow2kLoop(Pow2kLoop(m, dest, lo, mid), dest, mid, hi)

\* PrimeFieldElement.Pow2k with its loop counter starting at 0.
Pow2kFromZero(m, dest, x, k) ==
    Pow2kLoop(PrimeSquare([m EXCEPT !.ks = Append(@, k)], dest, x), dest, 0, k)

\* PrimeFieldElement.Pow2k
Pow2k(m, dest, x, k) ==
    Pow2kLoop(PrimeSquare([m EXCEPT !.ks = Append(@, k)], dest, x), dest, 1, k)

\* PrimeFieldElement.Add
PrimeAdd(m, dest, lhs, rhs) == fp751AddReduced(m, dest, lhs, rhs)

\* PrimeFieldElement.Sub
PrimeSub(m, dest, lhs, rhs) == fp751SubReduced(m, dest, lhs, rhs)

\* PrimeFieldElement.VartimeEq
PrimeVartimeEq(m, lhs, rhs) == vartimeEq(m.cell[lhs].v, m.cell[rhs].v)

\* The sliding-window strategy of P34.
powStrategy ==
    <<5, 7, 6, 2, 10, 4, 6, 9, 8, 5, 9, 4, 7, 5, 5, 4, 8, 3, 9, 5, 5, 4, 10, 4,
      6, 6, 6, 5, 8, 9, 3, 4, 9, 4, 5, 6, 6, 2, 9, 4, 5, 5, 5, 7, 7, 9, 4, 6, 4,
      8, 5, 8, 6, 6, 2, 9, 7, 4, 8, 8, 8, 4, 6, 5, 5, 5, 5, 5, 5, 5, 5, 5, 5, 5,
      5, 5, 5, 5, 5, 5, 5, 5, 5, 5, 5, 5, 5, 5, 5, 5, 5, 5, 5, 5, 5, 5, 5, 5, 5,
      5, 5, 5, 5, 5, 5, 5, 5, 5, 5, 5, 5, 5, 5, 5, 5, 5, 5, 5, 5, 5, 5, 5, 5, 5,
      5, 5, 5, 5, 5, 5, 5, 5, 5, 5, 5, 5, 2>>

mulStrategy ==
    <<31, 23, 21, 1, 31, 7, 7, 7, 9, 9, 19, 15, 23, 23, 11, 7, 25, 5, 21, 17,
      11, 5, 17, 7, 11, 9, 23, 9, 1, 19, 5, 3, 25, 15, 11, 29, 31, 1, 29, 11, 13,
      9, 11, 27, 13, 19, 15, 31, 3, 29, 23, 31, 25, 11, 1, 21, 19, 15, 15, 21,
      29, 13, 23, 31, 31, 31, 31, 31, 31, 31, 31, 31, 31, 31, 31, 31, 31, 31, 31,
      31, 31, 31, 31, 31, 31, 31, 31, 31, 31, 31, 31, 31, 31, 31, 31, 31, 31, 31,
      31, 31, 31, 31, 31, 31, 31, 31, 31, 31, 31, 31, 31, 31, 31, 31, 31, 31, 31,
      31, 31, 31, 31, 31, 31, 31, 31, 31, 31, 31, 31, 31, 31, 31, 31, 31, 31, 31,
      3>>

initialMul == 27

\* Number of entries of P34's lookup table.
LookupLen == 16

\* Number of steps of P34's chain.
ChainLen == 137

\* Cells of P34's frame at base address f: xx, then lookup[0..15].
P34xx(f) == f
P34lookup(f, j) == f + 1 + j
P34FrameLen == LookupLen + 1

\* Reading lookup[j]: Go checks the index.
LookupOk(j) == j \in 0 .. (LookupLen - 1)

\* That loop with x in the place of xx: lookup[i].Mul(&lookup[i-1], x).
RECURSIVE P34TableLoopByX(_, _, _)
P34TableLoopByX(m, f, i) ==
    IF i < LookupLen /\ ~m.panic
    THEN P34TableLoopByX(PrimeMul(m, P34lookup(f, i), P34lookup(f, i - 1), P34lookup(f, 0)),
                         f, i + 1)
    ELSE m

\* for i := 1; i < 16; i++ { lookup[i].Mul(&lookup[i-1], xx) }
RECURSIVE P34TableLoop(_, _, _)
P34TableLoop(m, f, i) ==
    IF i < LookupLen /\ ~m.panic
    THEN P34TableLoop(PrimeMul(m, P34lookup(f, i), P34lookup(f, i - 1), P34xx(f)), f, i + 1)
    ELSE m

\* P34 up to and including `*dest = lookup[initialMul/2]`.
P34Setup(m, f, dest, x) ==
    LET m0 == Alloc(m, P34FrameLen, 0)
        m1 == PrimeSquare(m0, P34xx(f), x)
        m2 == [m1 EXCEPT !.cell[P34lookup(f, 0)] = m1.cell[x]]
        m3 == P34TableLoop(m2, f, 1)
        j  == initialMul \div 2
    IN  IF LookupOk(j)
        THEN [m3 EXCEPT !.cell[dest] = m3.cell[P34lookup(f, j)], !.idx = Append(@, j)]
        ELSE [m3 EXCEPT !.panic = TRUE]

\* That body with the index rounded up: lookup[(mulStrategy[i]+1)/2].
P34StepRoundUp(m, f, dest, i) ==
    LET m1 == Pow2k(m, dest, dest, powStrategy[i + 1])
        j  == (mulStrategy[i + 1] + 1) \div 2
    IN  IF LookupOk(j)
        THEN [PrimeMul(m1, dest, dest, P34lookup(f, j)) EXCEPT !.idx = Append(@, j)]
        ELSE [m1 EXCEPT !.panic = TRUE]

\* That body with the multiplication skipped when dest is zero.
P34StepSkipZero(m, f, dest, i) ==
    LET m1 == Pow2k(m, dest, dest, powStrategy[i + 1])
        j  == mulStrategy[i + 1] \div 2
    IN  IF m1.cell[dest].v = 0 THEN m1
        ELSE IF LookupOk(j)
        THEN [PrimeMul(m1, dest, dest, P34lookup(f, j)) EXCEPT !.idx = Append(@, j)]
        ELSE [m1 EXCEPT !.panic = TRUE]

\* The body of P34's chain loop, i counted from 0 as in the code.
P34Step(m, f, dest, i) ==
    LET m1 == Pow2k(m, dest, dest, powStrategy[i + 1])
        j  == mulStrategy[i + 1] \div 2
    IN  IF LookupOk(j)
        THEN [PrimeMul(m1, dest, dest, P34lookup(f, j)) EXCEPT !.idx = Append(@, j)]
        ELSE [m1 EXCEPT !.panic = TRUE]

\* The iterations lo <= i < hi of
\*   for i := uint8(0); i < 137; i++ { ... }
\* taken by halves; a panic ends the loop.
RECURSIVE P34ChainLoop(_, _, _, _, _)
P34ChainLoop(m, f, dest, lo, hi) ==
    IF lo >= hi \/ m.panic THEN m
    ELSE IF hi = lo + 1 THEN P34Step(m, f, dest, lo)
    ELSE LET mid == (lo + hi) \div 2
         IN  P34ChainLoop(P34ChainLoop(m, f, dest, lo, mid), f, dest, mid, hi)

\* PrimeFieldElement.P34
P34(m, dest, x) ==
    LET f == Top(m)
    IN  Free(P34ChainLoop(P34Setup(m, f, dest, x), f, dest, 0, ChainLen), P34FrameLen, 0)

\* PrimeFieldElement.Sqrt without the copy: dest.Mul(dest, x).
PrimeSqrtNoCopy(m, dest, x) ==
    LET m0 == Alloc(m, 1, 0)
        m2 == P34(m0, dest, x)
    IN  IF m2.panic THEN Free(m2, 1, 0)
        ELSE Free(PrimeMul(m2, dest, dest, x), 1, 0)

\* PrimeFieldElement.Sqrt; the local tmp_x is the cell of its frame.
PrimeSqrt(m, dest, x) ==
    LET tmp_x == Top(m)
        m0 == Alloc(m, 1, 0)
        m1 == [m0 EXCEPT !.cell[tmp_x] = m0.cell[x]]
        m2 == P34(m1, dest, x)
    IN  IF m2.panic THEN Free(m2, 1, 0)
        ELSE Free(PrimeMul(m2, dest, dest, tmp_x), 1, 0)

\* PrimeFieldElement.Inv without the copy: dest.Mul(dest, x).
PrimeInvNoCopy(m, dest, x) ==
    LET m0 == Alloc(m, 1, 0)
        m2 == PrimeSquare(m0, dest, x)
        m3 == P34(m2, dest, dest)
    IN  IF m3.panic THEN Free(m3, 1, 0)
        ELSE LET m4 == PrimeSquare(m3, dest, dest)
                 m5 == PrimeMul(m4, dest, dest, x)
             IN  Free(m5, 1, 0)

\* PrimeFieldElement.Inv; the local tmp_x is the cell of its frame.
PrimeInv(m, dest, x) ==
    LET tmp_x == Top(m)
        m0 == Alloc(m, 1, 0)
        m1 == [m0 EXCEPT !.cell[tmp_x] = m0.cell[x]]
        m2 == PrimeSquare(m1, dest, x)
        m3 == P34(m2, dest, dest)
    IN  IF m3.panic THEN Free(m3, 1, 0)
        ELSE LET m4 == PrimeSquare(m3, dest, dest)
                 m5 == PrimeMul(m4, dest, dest, tmp_x)
             IN  Free(m5, 1, 0)

\* ------------------------------------------------------------------------
\* Extension field.  An ExtensionFieldElement at address e has its
\* coordinate a in cell e and its coordinate b in cell e + 1.
\* ------------------------------------------------------------------------

ExtA(e) == e
ExtB(e) == e + 1

\* ExtensionFieldElement.Mul with the imaginary part accumulated in the
\* buffer of ac, which the first reduction then destroys.
ExtMulAccumulateInAc(m, dest, lhs, rhs) ==
    LET a == ExtA(lhs)
        b == ExtB(lhs)
        c == ExtA(rhs)
        d == ExtB(rhs)
        b_minus_a   == Top(m)
        c_minus_d   == Top(m) + 1
        ac          == TopX2(m)
        bd          == TopX2(m) + 1
        ad_plus_bc  == TopX2(m) + 2
        ac_minus_bd == TopX2(m) + 3
        m0  == Alloc(m, 2, 4)
        m1  == fp751Mul(m0, ac, a, c)
        m2  == fp751Mul(m1, bd, b, d)
        m3  == fp751SubReduced(m2, b_minus_a, b, a)
        m4  == fp751SubReduced(m3, c_minus_d, c, d)
        m5  == fp751Mul(m4, ad_plus_bc, b_minus_a, c_minus_d)
        m6  == fp751X2AddLazy(m5, ac, ad_plus_bc, ac)
        m7  == fp751X2AddLazy(m6, ac, ac, bd)
        m8  == fp751MontgomeryReduce(m7, ExtB(dest), ac)
        m9  == fp751X2SubLazy(m8, ac_minus_bd, ac, bd)
        m10 == fp751MontgomeryReduce(m9, ExtA(dest), ac_minus_bd)
    IN  Free(m10, 2, 4)

\* ExtensionFieldElement.Mul
ExtMul(m, dest, lhs, rhs) ==
    LET a == ExtA(lhs)
        b == ExtB(lhs)
        c == ExtA(rhs)
        d == ExtB(rhs)
        b_minus_a   == Top(m)
        c_minus_d   == Top(m) + 1
        ac          == TopX2(m)
        bd          == TopX2(m) + 1
        ad_plus_bc  == TopX2(m) + 2
        ac_minus_bd == TopX2(m) + 3
        m0  == Alloc(m, 2, 4)
        m1  == fp751Mul(m0, ac, a, c)
        m2  == fp751Mul(m1, bd, b, d)
        m3  == fp751SubReduced(m2, b_minus_a, b, a)
        m4  == fp751SubReduced(m3, c_minus_d, c, d)
        m5  == fp751Mul(m4, ad_plus_bc, b_minus_a, c_minus_d)
        m6  == fp751X2AddLazy(m5, ad_plus_bc, ad_plus_bc, ac)
        m7  == fp751X2AddLazy(m6, ad_plus_bc, ad_plus_bc, bd)
        m8  == fp751MontgomeryReduce(m7, ExtB(dest), ad_plus_bc)
        m9  == fp751X2SubLazy(m8, ac_minus_bd, ac, bd)
        m10 == fp751MontgomeryReduce(m9, ExtA(dest), ac_minus_bd)
    IN  Free(m10, 2, 4)

\* ExtensionFieldElement.Inv with b in the place of minus_b = 0 - b.
ExtInvNoNegate(m, dest, x) ==
    LET a == ExtA(x)
        b == ExtB(x)
        asq_plus_bsq     == Top(m)
        asq_plus_bsq_inv == Top(m) + 1
        minus_b          == Top(m) + 2
        asq      == TopX2(m)
        bsq      == TopX2(m) + 1
        ac       == TopX2(m) + 2
        minus_bc == TopX2(m) + 3
        c  == asq_plus_bsq_inv
        m0 == Alloc(m, 3, 4)
        m1 == fp751Mul(m0, asq, a, a)
        m2 == fp751Mul(m1, bsq, b, b)
        m3 == fp751X2AddLazy(m2, asq, asq, bsq)
        m4 == fp751MontgomeryReduce(m3, asq_plus_bsq, asq)
        m5 == PrimeInv(m4, asq_plus_bsq_inv, asq_plus_bsq)
    IN  IF m5.panic THEN Free(m5, 3, 4)
        ELSE LET m6  == fp751Mul(m5, ac, a, c)
                 m7  == fp751MontgomeryReduce(m6, ExtA(dest), ac)
                 m9  == fp751Mul(m7, minus_bc, b, c)
                 m10 == fp751MontgomeryReduce(m9, ExtB(dest), minus_bc)
             IN  Free(m10, 3, 4)

\* ExtensionFieldElement.Inv
ExtInv(m, dest, x) ==
    LET a == ExtA(x)
        b == ExtB(x)
        asq_plus_bsq     == Top(m)
        asq_plus_bsq_inv == Top(m) + 1
        minus_b          == Top(m) + 2
        asq      == TopX2(m)
        bsq      == TopX2(m) + 1
        ac       == TopX2(m) + 2
        minus_bc == TopX2(m) + 3
        c  == asq_plus_bsq_inv
        m0 == Alloc(m, 3, 4)
        m1 == fp751Mul(m0, asq, a, a)
        m2 == fp751Mul(m1, bsq, b, b)
        m3 == fp751X2AddLazy(m2, asq, asq, bsq)
        m4 == fp751MontgomeryReduce(m3, asq_plus_bsq, asq)
        m5 == PrimeInv(m4, asq_plus_bsq_inv, asq_plus_bsq)
    IN  IF m5.panic THEN Free(m5, 3, 4)
        ELSE LET m6  == fp751Mul(m5, ac, a, c)
                 m7  == fp751MontgomeryReduce(m6, ExtA(dest), ac)
                 m8  == fp751SubReduced(m7, minus_b, minus_b, b)
                 m9  == fp751Mul(m8, minus_bc, minus_b, c)
                 m10 == fp751MontgomeryReduce(m9, ExtB(dest), minus_bc)
             IN  Free(m10, 3, 4)

\* ExtensionFieldElement.Square with a in the place of a2 = a + a.
ExtSquareNoDouble(m, dest, x) ==
    LET a == ExtA(x)
        b == ExtB(x)
        a2        == Top(m)
        a_plus_b  == Top(m) + 1
        a_minus_b == Top(m) + 2
        asq_minus_bsq == TopX2(m)
        ab2           == TopX2(m) + 1
        m0 == Alloc(m, 3, 2)
        m1 == fp751AddReduced(m0, a2, a, a)
        m2 == fp751AddReduced(m1, a_plus_b, a, b)
        m3 == fp751SubReduced(m2, a_minus_b, a, b)
        m4 == fp751Mul(m3, asq_minus_bsq, a_plus_b, a_minus_b)
        m5 == fp751Mul(m4, ab2, a, b)
        m6 == fp751MontgomeryReduce(m5, ExtA(dest), asq_minus_bsq)
        m7 == fp751MontgomeryReduce(m6, ExtB(dest), ab2)
    IN  Free(m7, 3, 2)

\* ExtensionFieldElement.Square
ExtSquare(m, dest, x) ==
    LET a == ExtA(x)
        b == ExtB(x)
        a2        == Top(m)
        a_plus_b  == Top(m) + 1
        a_minus_b == Top(m) + 2
        asq_minus_bsq == TopX2(m)
        ab2           == TopX2(m) + 1
        m0 == Alloc(m, 3, 2)
        m1 == fp751AddReduced(m0, a2, a, a)
        m2 == fp751AddReduced(m1, a_plus_b, a, b)
        m3 == fp751SubReduced(m2, a_minus_b, a, b)
        m4 == fp751Mul(m3, asq_minus_bsq, a_plus_b, a_minus_b)
        m5 == fp751Mul(m4, ab2, a2, b)
        m6 == fp751MontgomeryReduce(m5, ExtA(dest), asq_minus_bsq)
        m7 == fp751MontgomeryReduce(m6, ExtB(dest), ab2)
    IN  Free(m7, 3, 2)

\* ExtensionFieldElement.Add
ExtAdd(m, dest, lhs, rhs) ==
    LET m1 == fp751AddReduced(m, ExtA(dest), ExtA(lhs), ExtA(rhs))
    IN  fp751AddReduced(m1, ExtB(dest), ExtB(lhs), ExtB(rhs))

\* ExtensionFieldElement.Sub
ExtSub(m, dest, lhs, rhs) ==
    LET m1 == fp751SubReduced(m, ExtA(dest), ExtA(lhs), ExtA(rhs))
    IN  fp751SubReduced(m1, ExtB(dest), ExtB(lhs), ExtB(rhs))

\* ExtensionFieldElement.VartimeEq
ExtVartimeEq(m, lhs, rhs) ==
    /\ vartimeEq(m.cell[ExtA(lhs)].v, m.cell[ExtA(rhs)].v)
    /\ vartimeEq(m.cell[ExtB(lhs)].v, m.cell[ExtB(rhs)].v)

\* ------------------------------------------------------------------------
\* The program: a caller holds elements in its storage slots, hands some of
\* them to one method by pointer, and the method runs to its return.
\*   mem   the machine;
\*   pre   the machine as it was when the call was made;
\*   call  the call: the method, the slots dest, lhs and rhs point to (a
\*         method of one operand x has lhs = rhs = x), and the integer
\*         argument (k of Pow2k, x of SetUint64);
\*   pc    "call" before the method has run, "done" after its return.
\* ------------------------------------------------------------------------
VARIABLES mem, pre, call, pc

vars == <<mem, pre, call, pc>>

\* The caller's storage slots.
Slots == {1, 2}

\* The caller hands Pow2k a k in 1 .. MaxK, or k = MaxUint8.
MaxK == 8

\* Storage that is no operand of the call, and what
\* fp751MontgomeryReduce leaves in its input, hold a value 0 .. MaxGarbage.
MaxGarbage == 1

\* An operand in the second slot of an extension-field call has its
\* coordinates in 0 .. MaxCoord; an operand in the first slot ranges over
\* the whole field.
MaxCoord == 2

\* The cell of prime-field slot s, and the address of extension-field slot
\* s, above the two globals.
PrimeAddr(s) == AddrRsq + s
ExtAddr(s) == AddrRsq + 2 * s - 1

PrimeOps1 == {"PrimeSquare", "PrimeInv", "PrimeSqrt", "P34"}
PrimeOps2 == {"PrimeMul", "PrimeAdd", "PrimeSub"}
ExtOps1 == {"ExtSquare", "ExtInv"}
ExtOps2 == {"ExtMul", "ExtAdd", "ExtSub"}
PrimeOps == PrimeOps1 \cup PrimeOps2 \cup {"Pow2k", "SetUint64"}
ExtOps == ExtOps1 \cup ExtOps2

Calls ==
    [op : PrimeOps2 \cup ExtOps2, dest : Slots, lhs : Slots, rhs : Slots, arg : {0}]
    \cup {c \in [op : PrimeOps1 \cup ExtOps1, dest : Slots, lhs : Slots, rhs : Slots,
                 arg : {0}] : c.rhs = c.lhs}
    \cup {c \in [op : {"Pow2k"}, dest : Slots, lhs : Slots, rhs : Slots,
                 arg : (1 .. MaxK) \cup {MaxUint8}] : c.rhs = c.lhs}
    \cup {c \in [op : {"SetUint64"}, dest : Slots, lhs : Slots, rhs : Slots,
                 arg : Uint64] : c.lhs = c.dest /\ c.rhs = c.dest}

\* The values slot s may hold when call c is made with garbage g: any
\* value if lhs or rhs points to it (SetUint64, which has no operand, has
\* them point to dest), g otherwise.
PrimeIn(c, g, s) == IF s \in {c.lhs, c.rhs} THEN Fp ELSE {g}

ExtIn(c, g, s) ==
    IF s \in {c.lhs, c.rhs}
    THEN (IF s = 1 THEN Fp \X Fp ELSE (0 .. MaxCoord) \X (0 .. MaxCoord))
    ELSE {<<g, g>>}

\* The machine at a call: the globals, then the caller's slots.  The ghost
\* exponent of a prime-field operand lhs is 1.
Machine(c, g, cells) ==
    [cell |-> <<[v |-> montgomeryR, e |-> NoExp], [v |-> montgomeryRsq, e |-> NoExp]>>
              \o cells,
     x2 |-> <<>>, junk |-> g, nSq |-> 0, nMul |-> 0, nfpMul |-> 0, nRed |-> 0,
     ops |-> <<>>, idx |-> <<>>, ks |-> <<>>, panic |-> FALSE]

PrimeCells(c, v1, v2) ==
    <<[v |-> v1, e |-> IF c.lhs = 1 THEN ExpOne ELSE NoExp],
      [v |-> v2, e |-> IF c.lhs = 2 THEN ExpOne ELSE NoExp]>>

ExtCells(v1, v2) ==
    <<[v |-> v1[1], e |-> NoExp], [v |-> v1[2], e |-> NoExp],
      [v |-> v2[1], e |-> NoExp], [v |-> v2[2], e |-> NoExp]>>

Machines(c, g) ==
    IF c.op \in PrimeOps
    THEN {Machine(c, g, PrimeCells(c, v1, v2)) : v1 \in PrimeIn(c, g, 1), v2 \in PrimeIn(c, g, 2)}
    ELSE {Machine(c, g, ExtCells(v1, v2)) : v1 \in ExtIn(c, g, 1), v2 \in ExtIn(c, g, 2)}

InitOf(ops) ==
    /\ call \in {c \in Calls : c.op \in ops}
    /\ \E g \in 0 .. MaxGarbage : mem \in Machines(call, g)
    /\ pre = mem
    /\ pc = "call"

Init == InitOf(PrimeOps \cup ExtOps)

\* The method `op` runs from its call to its return, leaving machine m.
Return(op, m) ==
    /\ pc = "call"
    /\ call.op = op
    /\ mem' = m
    /\ pc' = "done"
    /\ UNCHANGED <<pre, call>>

D == PrimeAddr(call.dest)
L == PrimeAddr(call.lhs)
Rh == PrimeAddr(call.rhs)
ED == ExtAddr(call.dest)
EL == ExtAddr(call.lhs)
ER == ExtAddr(call.rhs)

CallSetUint64 == Return("SetUint64", SetUint64(mem, D, call.arg))
CallPrimeMul == Return("PrimeMul", PrimeMul(mem, D, L, Rh))
CallPrimeSquare == Return("PrimeSquare", PrimeSquare(mem, D, L))
CallPow2k == Return("Pow2k", Pow2k(mem, D, L, call.arg))
CallPrimeAdd == Return("PrimeAdd", PrimeAdd(mem, D, L, Rh))
CallPrimeSub == Return("PrimeSub", PrimeSub(mem, D, L, Rh))
CallPrimeSqrt == Return("PrimeSqrt", PrimeSqrt(mem, D, L))
CallPrimeInv == Return("PrimeInv", PrimeInv(mem, D, L))
CallP34 == Return("P34", P34(mem, D, L))
CallExtMul == Return("ExtMul", ExtMul(mem, ED, EL, ER))
CallExtInv == Return("ExtInv", ExtInv(mem, ED, EL))
CallExtSquare == Return("ExtSquare", ExtSquare(mem, ED, EL))
CallExtAdd == Return("ExtAdd", ExtAdd(mem, ED, EL, ER))
CallExtSub == Return("ExtSub", ExtSub(mem, ED, EL, ER))

Next ==
    \/ CallSetUint64
    \/ CallPrimeMul
    \/ CallPrimeSquare
    \/ CallPow2k
    \/ CallPrimeAdd
    \/ CallPrimeSub
    \/ CallPrimeSqrt
    \/ CallPrimeInv
    \/ CallP34
    \/ CallExtMul
    \/ CallExtInv
    \/ CallExtSquare
    \/ CallExtAdd
    \/ CallExtSub

Spec == Init /\ [][Next]_vars

\* The caller calls only the arithmetic of PrimeFieldElement.
PrimeArith == PrimeOps \ {"SetUint64"}

InitPrimeArith == InitOf(PrimeArith)

NextPrimeArith ==
    \/ CallPrimeMul
    \/ CallPrimeSquare
    \/ CallPow2k
    \/ CallPrimeAdd
    \/ CallPrimeSub
    \/ CallPrimeSqrt
    \/ CallPrimeInv
    \/ CallP34

SpecPrimeArith == InitPrimeArith /\ [][NextPrimeArith]_vars

\* The caller calls only PrimeFieldElement.Pow2k and .P34.
InitPow2k == InitOf({"Pow2k", "P34"})

NextPow2k ==
    \/ CallPow2k
    \/ CallP34

SpecPow2k == InitPow2k /\ [][NextPow2k]_vars

\* The caller calls only PrimeFieldElement.P34.
InitP34 == InitOf({"P34"})

NextP34 == CallP34

SpecP34 == InitP34 /\ [][NextP34]_vars

\* The caller calls only PrimeFieldElement.Sqrt.
InitSqrt == InitOf({"PrimeSqrt"})

NextSqrt == CallPrimeSqrt

SpecSqrt == InitSqrt /\ [][NextSqrt]_vars

\* The caller calls only PrimeFieldElement.Inv and ExtensionFieldElement.Inv.
InitInv == InitOf({"PrimeInv", "ExtInv"})

NextInv ==
    \/ CallPrimeInv
    \/ CallExtInv

SpecInv == InitInv /\ [][NextInv]_vars

\* The caller calls only ExtensionFieldElement.Mul and .Square.
InitExtArith == InitOf({"ExtMul", "ExtSquare"})

NextExtArith ==
    \/ CallExtMul
    \/ CallExtSquare

SpecExtArith == InitExtArith /\ [][NextExtArith]_vars

\* ------------------------------------------------------------------------
\* Reference arithmetic for the properties: the integers mod p behind the
\* Montgomery forms, and a destination that is no operand.
\* ------------------------------------------------------------------------

\* The residue a cell value v stands for, and the cell value of residue n.
FromMont(v) == (v * RInv) % p
ToMont(n) == (n * (R % p)) % p

\* The residues of the coordinates of the extension-field element at
\* address e of machine m.
ReA(m, e) == FromMont(m.cell[ExtA(e)].v)
ImB(m, e) == FromMont(m.cell[ExtB(e)].v)

\* The values of the coordinates of that element.
ExtVal(m, e) == <<m.cell[ExtA(e)].v, m.cell[ExtB(e)].v>>

\* Machine m with n more cells of caller storage, holding garbage.
WithFresh(m, n) ==
    [m EXCEPT !.cell = @ \o [j \in 1 .. n |-> [v |-> m.junk, e |-> NoExp]]]

\* The slot of that storage: the one after the caller's slots.
FreshSlot == Cardinality(Slots) + 1

\* Machine m with one more prime-field element of caller storage holding
\* the value v, and with one more extension-field element holding the
\* pair of values w.
WithPrime(m, v) == [m EXCEPT !.cell = @ \o <<[v |-> v, e |-> NoExp]>>]
WithExt(m, w) == [m EXCEPT !.cell = @ \o <<[v |-> w[1], e |-> NoExp], [v |-> w[2], e |-> NoExp]>>]

\* Call c run on machine m with its dest at address d.
RunPrime(m, c, d) ==
    LET l == PrimeAddr(c.lhs)
        r == PrimeAddr(c.rhs)
    IN  CASE c.op = "SetUint64" -> SetUint64(m, d, c.arg)
          [] c.op = "PrimeMul" -> PrimeMul(m, d, l, r)
          [] c.op = "PrimeSquare" -> PrimeSquare(m, d, l)
          [] c.op = "Pow2k" -> Pow2k(m, d, l, c.arg)
          [] c.op = "PrimeAdd" -> PrimeAdd(m, d, l, r)
          [] c.op = "PrimeSub" -> PrimeSub(m, d, l, r)
          [] c.op = "PrimeSqrt" -> PrimeSqrt(m, d, l)
          [] c.op = "PrimeInv" -> PrimeInv(m, d, l)
          [] c.op = "P34" -> P34(m, d, l)

RunExt(m, c, d) ==
    LET l == ExtAddr(c.lhs)
        r == ExtAddr(c.rhs)
    IN  CASE c.op = "ExtMul" -> ExtMul(m, d, l, r)
          [] c.op = "ExtInv" -> ExtInv(m, d, l)
          [] c.op = "ExtSquare" -> ExtSquare(m, d, l)
          [] c.op = "ExtAdd" -> ExtAdd(m, d, l, r)
          [] c.op = "ExtSub" -> ExtSub(m, d, l, r)

\* Machine m with every value of the caller's storage replaced by the next
\* residue: another input for the same call.
OtherInput(m) ==
    [m EXCEPT !.cell = [j \in 1 .. Len(@) |->
                           IF j <= AddrRsq THEN @[j] ELSE [@[j] EXCEPT !.v = (@ + 1) % p]]]

\* What of a run does not lie in the values computed: the calls of Square
\* and Mul with their addresses, the table indices, the arguments of
\* Pow2k, the counts of calls, a panic, and the storage in use.
ControlTrace(m) ==
    <<m.ops, m.idx, m.ks, m.nSq, m.nMul, m.nfpMul, m.nRed, m.panic, Len(m.cell), Len(m.x2)>>

\* The sum of the entries lo .. hi of the sequence s, by halves.
RECURSIVE SumSeq(_, _, _)
SumSeq(s, lo, hi) ==
    IF lo > hi THEN 0
    ELSE IF lo = hi THEN s[lo]
    ELSE SumSeq(s, lo, (lo + hi) \div 2) + SumSeq(s, (lo + hi) \div 2 + 1, hi)

\* x^e mod p for the exponent with the little-endian bits e, by naive
\* square-and-multiply from the most significant bit down: the bits
\* lo .. hi of e, taken by halves, acc the power reached so far.
RECURSIVE SquareAndMultiply(_, _, _, _, _)
SquareAndMultiply(acc, x, e, lo, hi) ==
    IF hi < lo \/ acc < 0 THEN acc
    ELSE IF hi = lo THEN (IF e[hi] = 1 THEN (acc * acc * x) % p ELSE (acc * acc) % p)
    ELSE LET mid == (lo + hi) \div 2
         IN  SquareAndMultiply(SquareAndMultiply(acc, x, e, mid + 1, hi), x, e, lo, mid)

NaivePow(x, e) == SquareAndMultiply(1, x, e, 1, Len(e))

\* The bits of 2^k.
Exp2k(k) == [j \in 1 .. (k + 1) |-> IF j = k + 1 THEN 1 ELSE 0]

\* The exponent the chain of P34 accumulates over its steps lo <= i < hi,
\* taken by halves, from the exponent e before step lo:
\* e_{i+1} = e_i * 2^powStrategy[i] + mulStrategy[i].
RECURSIVE ChainExponentFrom(_, _, _)
ChainExponentFrom(e, lo, hi) ==
    IF lo >= hi \/ e = <<>> THEN e
    ELSE IF hi = lo + 1
         THEN BigAdd(BigShl(e, powStrategy[lo + 1]), <<mulStrategy[lo + 1]>>)
    ELSE LET mid == (lo + hi) \div 2
         IN  ChainExponentFrom(ChainExponentFrom(e, lo, mid), mid, hi)

\* e_137, from e_0 = initialMul.
ChainExponent == ChainExponentFrom(<<initialMul>>, 0, ChainLen)

\* The plain integer behind the cell at address x of machine m, got by
\* multiplying it by plain 1 and Montgomery-reducing.
MulByOneAndReduce(m, x) ==
    LET one == Top(m)
        t   == TopX2(m)
        m0  == Alloc(m, 1, 1)
        m1  == [m0 EXCEPT !.cell[one] = [v |-> 1, e |-> NoExp]]
        m2  == fp751Mul(m1, t, x, one)
    IN  fp751MontgomeryReduce(m2, one, t).cell[one].v

\* ------------------------------------------------------------------------
\* Properties
\* ------------------------------------------------------------------------

\* C2: whenever ExtensionFieldElement.Mul has returned, for the operands
\* lhs = a + bi and rhs = c + di the call was made with, dest.a is the
\* Montgomery form of (a*c - b*d) mod p and dest.b that of (a*d + b*c)
\* mod p: the three-multiplication computation agrees with the direct
\* four-multiplication formula, whatever the first reduction left in the
\* buffer it destroyed, also when a*c < b*d.
KaratsubaCorrect ==
    (pc = "done" /\ call.op = "ExtMul") =>
        LET a == ReA(pre, EL)
            b == ImB(pre, EL)
            c == ReA(pre, ER)
            d == ImB(pre, ER)
        IN  /\ mem.cell[ExtA(ED)].v = ToMont((a * c - b * d + p * p) % p)
            /\ mem.cell[ExtB(ED)].v = ToMont((a * d + b * c) % p)

\* ExtensionFieldElement.Mul has returned from a call whose double-width
\* products satisfy a*c < b*d, so that the lazy subtraction borrowed.
KaratsubaBorrowReached ==
    /\ pc = "done"
    /\ call.op = "ExtMul"
    /\ pre.cell[ExtA(EL)].v * pre.cell[ExtA(ER)].v
           < pre.cell[ExtB(EL)].v * pre.cell[ExtB(ER)].v
    /\ pre.junk # 0

\* C9: whenever ExtensionFieldElement.Square has returned, for the operand
\* x = a + bi the call was made with, dest.a is the Montgomery form of
\* (a+b)*(a-b) = a^2 - b^2 mod p, dest.b that of 2ab mod p, and dest is
\* what ExtensionFieldElement.Mul(x, x) leaves.
ExtSquareCorrect ==
    (pc = "done" /\ call.op = "ExtSquare") =>
        LET a == ReA(pre, EL)
            b == ImB(pre, EL)
            viaMul == ExtMul(WithFresh(pre, 2), ExtAddr(FreshSlot), EL, EL)
        IN  /\ mem.cell[ExtA(ED)].v = ToMont(((a + b) * (a - b + p)) % p)
            /\ mem.cell[ExtA(ED)].v = ToMont((a * a - b * b + p * p) % p)
            /\ mem.cell[ExtB(ED)].v = ToMont((2 * a * b) % p)
            /\ ExtVal(mem, ED) = ExtVal(viaMul, ExtAddr(FreshSlot))

\* ExtensionFieldElement.Square has returned from a call on an x = a + bi
\* with a and b nonzero and a # b.
ExtSquareReached ==
    /\ pc = "done"
    /\ call.op = "ExtSquare"
    /\ ReA(pre, EL) # 0
    /\ ImB(pre, EL) # 0
    /\ ReA(pre, EL) # ImB(pre, EL)

\* C7: whenever SetUint64(n) has returned, dest, whatever it held before,
\* holds the Montgomery form n*R mod p, which is the Montgomery reduction
\* of n * montgomeryRsq; multiplying dest by plain 1 and reducing gives n
\* back; for n = 1 dest is congruent to the global montgomeryR; and when
\* any operation has returned, the globals montgomeryR and montgomeryRsq
\* hold what they held at the call, (2^768) mod p and (2^768)^2 mod p.
MontgomeryRoundTrip ==
    /\ (pc = "done" /\ call.op = "SetUint64") =>
           LET n == call.arg
           IN  /\ mem.cell[D].v = (n * R) % p
               /\ mem.cell[D].v = (((n * pre.cell[AddrRsq].v) % p) * RInv) % p
               /\ MulByOneAndReduce(mem, D) = n
               /\ n = 1 => vartimeEq(mem.cell[D].v, mem.cell[AddrR].v)
    /\ pc = "done" =>
           /\ mem.cell[AddrR] = pre.cell[AddrR]
           /\ mem.cell[AddrRsq] = pre.cell[AddrRsq]
           /\ mem.cell[AddrR].v = R % p
           /\ mem.cell[AddrRsq].v = (R * (R % p)) % p

\* SetUint64(n) has returned for an n > 1 from a call made with a dest
\* whose words above word 0 were not all zero.
SetUint64OverwriteReached ==
    /\ pc = "done"
    /\ call.op = "SetUint64"
    /\ call.arg > 1
    /\ pre.cell[D].v >= 2 ^ WordBits

\* C10: whenever Pow2k(dest, x, k) has returned, it has made exactly k
\* squarings, the first from x into dest and the others in place on dest,
\* and dest holds x^(2^k), also when dest is x; and whenever P34 has
\* returned, every k it handed to Pow2k was an entry of powStrategy
\* between 2 and 10.
Pow2kCorrect ==
    /\ (pc = "done" /\ call.op = "Pow2k") =>
           LET k == call.arg
           IN  /\ mem.nSq = k
               /\ mem.nMul = 0
               /\ mem.ops = [j \in 1 .. k |-> IF j = 1 THEN <<"Square", D, L, L>>
                                                      ELSE <<"Square", D, D, D>>]
               /\ mem.cell[D].e = Exp2k(k)
               /\ FromMont(mem.cell[D].v) = NaivePow(FromMont(pre.cell[L].v), Exp2k(k))
    /\ (pc = "done" /\ call.op = "P34") =>
           /\ mem.ks = powStrategy
           /\ Len(mem.ks) = ChainLen
           /\ \A j \in 1 .. Len(mem.ks) : mem.ks[j] \in 2 .. 10

\* Pow2k has returned from a call with dest = x, k = 255 and x not 0 or 1.
Pow2kAliasedReached ==
    /\ pc = "done"
    /\ call.op = "Pow2k"
    /\ call.dest = call.lhs
    /\ call.arg = MaxUint8
    /\ FromMont(pre.cell[L].v) \notin {0, 1}

\* C5: whenever P34 has returned, dest holds x^((p-3)/4) as naive
\* square-and-multiply computes it from the x of the call, and the exponent
\* the chain has accumulated through its squarings and multiplications is,
\* bit for bit, e_137 of the recurrence e_0 = 27, e_{i+1} =
\* e_i * 2^powStrategy[i] + mulStrategy[i], which is (p-3)/4 =
\* 2^370 * 3^239 - 1 for p = 2^372 * 3^239 - 1.
P34ChainExact ==
    (pc = "done" /\ call.op = "P34") =>
        /\ mem.cell[D].e = BitsOf(ChainExponent)
        /\ mem.cell[D].e = ExpP34
        /\ ExpP34 = BitsOf(BigDec(BigShl(BigMulPow3(BigOne, 239), 370)))
        /\ FromMont(mem.cell[D].v) = NaivePow(FromMont(pre.cell[L].v), ExpP34)

\* P34 has returned from a call on an x that is not 0, 1 or -1.
P34Reached ==
    /\ pc = "done"
    /\ call.op = "P34"
    /\ FromMont(pre.cell[L].v) \notin {0, 1, p - 1}
    /\ mem.nMul = ChainLen + LookupLen - 1

\* C6: whenever Sqrt has returned from a call on a square a = y*y, the
\* square of dest is a; and whenever Sqrt has returned, dest is the product
\* of P34(a) and the a of the call, a^((p+1)/4), also when dest is a.
SqrtRoundTrip ==
    (pc = "done" /\ call.op = "PrimeSqrt") =>
        LET fresh  == PrimeAddr(FreshSlot)
            viaP34 == P34(WithFresh(pre, 1), fresh, L)
            a      == pre.cell[L].v
        IN  /\ mem.cell[D].e = ExpSqrt
            /\ mem.cell[D].v = PrimeMul(viaP34, fresh, fresh, L).cell[fresh].v
            /\ FromMont(mem.cell[D].v) = NaivePow(FromMont(a), ExpSqrt)
            /\ (\E y \in Fp : a = ToMont((y * y) % p)) =>
                   PrimeSquare(WithFresh(mem, 1), fresh, D).cell[fresh].v = a

\* Sqrt has returned from a call with dest = x on a square other than 0
\* and 1.
SqrtAliasedReached ==
    /\ pc = "done"
    /\ call.op = "PrimeSqrt"
    /\ call.dest = call.lhs
    /\ \E y \in Fp : pre.cell[L].v = ToMont((y * y) % p) /\ (y * y) % p \notin {0, 1}

\* C3: whenever PrimeFieldElement.Inv has returned, dest holds x^(p-2),
\* built as ((x^2)^((p-3)/4))^2 * x from the x of the call; for x nonzero
\* Mul(x, dest) is the element SetUint64(1) gives and Inv(dest) is x.
\* Whenever ExtensionFieldElement.Inv has returned, dest is
\* (a*n, (0-b)*n) for the x = a + bi of the call and n the inverse
\* (a^2+b^2)^(p-2); for x nonzero Mul(x, dest) is 1 + 0i and Inv(dest) is x.
InverseLaw ==
    /\ (pc = "done" /\ call.op = "PrimeInv") =>
           LET fresh == PrimeAddr(FreshSlot)
               a     == pre.cell[L].v
               x     == FromMont(a)
               y     == NaivePow((x * x) % p, ExpP34)
               prod  == PrimeMul(WithPrime(mem, a), fresh, fresh, D)
               one   == SetUint64(WithFresh(mem, 1), fresh, 1)
               twice == PrimeInv(WithPrime(mem, mem.cell[D].v), fresh, fresh)
           IN  /\ mem.cell[D].e = ExpInv
               /\ FromMont(mem.cell[D].v) = (y * y * x) % p
               /\ FromMont(mem.cell[D].v) = NaivePow(x, ExpInv)
               /\ x # 0 => /\ PrimeVartimeEq(WithPrime(prod, one.cell[fresh].v), fresh, fresh + 1)
                           /\ PrimeVartimeEq(WithPrime(twice, a), fresh, fresh + 1)
    /\ (pc = "done" /\ call.op = "ExtInv") =>
           LET fresh == ExtAddr(FreshSlot)
               a     == ReA(pre, EL)
               b     == ImB(pre, EL)
               n     == NaivePow((a * a + b * b) % p, ExpInv)
               prod  == ExtMul(WithExt(mem, ExtVal(pre, EL)), fresh, fresh, ED)
               one   == SetUint64(WithFresh(mem, 1), fresh, 1)
               twice == ExtInv(WithFresh(mem, 2), fresh, ED)
           IN  /\ ReA(mem, ED) = (a * n) % p
               /\ ImB(mem, ED) = ((p - b) * n) % p
               /\ <<a, b>> # <<0, 0>> =>
                      /\ ExtVartimeEq(WithExt(prod, <<one.cell[fresh].v, 0>>), fresh, fresh + 2)
                      /\ ExtVartimeEq(WithExt(twice, ExtVal(pre, EL)), fresh, fresh + 2)

\* ExtensionFieldElement.Inv has returned from a call with dest = x on an
\* x = a + bi with a and b nonzero.
ExtInvAliasedReached ==
    /\ pc = "done"
    /\ call.op = "ExtInv"
    /\ call.dest = call.lhs
    /\ ReA(pre, EL) # 0
    /\ ImB(pre, EL) # 0

\* C8: whenever Mul, Square, Pow2k, Add, Sub, Inv, Sqrt or P34 of
\* PrimeFieldElement has returned, the same call on other operand values
\* makes the same calls of Square and Mul on the same addresses, reads the
\* same table indices and makes the same counts of fp751Mul and
\* fp751MontgomeryReduce; P34 makes exactly 745 squarings (1 plus the sum
\* 744 of powStrategy), 152 multiplications (15 plus 137) and 897 pairs of
\* fp751Mul and fp751MontgomeryReduce, Sqrt one multiplication more, Inv
\* two squarings and one multiplication more.
InputIndependent ==
    (pc = "done" /\ call.op \in PrimeArith) =>
        /\ ControlTrace(mem) = ControlTrace(RunPrime(OtherInput(pre), call, D))
        /\ call.op = "P34" =>
               /\ mem.nSq = 745
               /\ mem.nSq = 1 + SumSeq(powStrategy, 1, Len(powStrategy))
               /\ mem.nMul = 152
               /\ mem.nMul = (LookupLen - 1) + ChainLen
               /\ mem.nfpMul = 897
               /\ mem.nRed = 897
        /\ call.op = "PrimeSqrt" => mem.nSq = 745 /\ mem.nMul = 153 /\ mem.nfpMul = 898
        /\ call.op = "PrimeInv" => mem.nSq = 747 /\ mem.nMul = 153 /\ mem.nfpMul = 900
        /\ Len(mem.ops) = mem.nSq + mem.nMul
        /\ mem.nfpMul = mem.nSq + mem.nMul
        /\ mem.nRed = mem.nfpMul

\* P34 has returned from a call on x = 0, whose other input is x = 1.
P34OnZeroReached ==
    /\ pc = "done"
    /\ call.op = "P34"
    /\ pre.cell[L].v = 0
    /\ Len(mem.ops) = 897

\* C4: no operation panics on an index: whenever P34, Inv or Sqrt has run,
\* it has read its table at initialMul/2 and then at mulStrategy[i]/2 for
\* each of the 137 steps, all within 0..15; PrimeFieldElement.Inv of 0
\* leaves dest = 0 and ExtensionFieldElement.Inv of 0 + 0i leaves
\* dest = 0 + 0i.
InvOfZeroNoPanic ==
    /\ ~mem.panic
    /\ (pc = "done" /\ call.op \in {"P34", "PrimeInv", "PrimeSqrt", "ExtInv"}) =>
           /\ Len(mem.idx) = ChainLen + 1
           /\ mem.idx[1] = initialMul \div 2
           /\ \A i \in 1 .. ChainLen : mem.idx[i + 1] = mulStrategy[i] \div 2
           /\ \A j \in 1 .. Len(mem.idx) : mem.idx[j] \in 0 .. 15
    /\ (pc = "done" /\ call.op = "PrimeInv" /\ pre.cell[L].v = 0) => mem.cell[D].v = 0
    /\ (pc = "done" /\ call.op = "ExtInv" /\ ExtVal(pre, EL) = <<0, 0>>) =>
           ExtVal(mem, ED) = <<0, 0>>

\* ExtensionFieldElement.Inv has returned from a call on 0 + 0i.
ExtInvOfZeroReached ==
    /\ pc = "done"
    /\ call.op = "ExtInv"
    /\ ExtVal(pre, EL) = <<0, 0>>
    /\ Len(mem.idx) = ChainLen + 1

\* C1: whenever an operation of PrimeFieldElement (Mul, Square, Pow2k, Add,
\* Sub, Inv, Sqrt, P34) or of ExtensionFieldElement (Mul, Square, Inv, Add,
\* Sub) has returned from a call whose dest was the storage of one or both
\* of its operands, dest holds the value the same call leaves in a dest
\* that is the storage of no operand.
AliasingSafe ==
    (pc = "done" /\ call.op # "SetUint64" /\ call.dest \in {call.lhs, call.rhs}) =>
        IF call.op \in PrimeOps
        THEN LET fresh == PrimeAddr(FreshSlot)
             IN  mem.cell[D].v = RunPrime(WithFresh(pre, 1), call, fresh).cell[fresh].v
        ELSE LET fresh == ExtAddr(FreshSlot)
             IN  ExtVal(mem, ED) = ExtVal(RunExt(WithFresh(pre, 2), call, fresh), fresh)

\* PrimeFieldElement.Inv has returned from a call with dest = x on an x
\* that is not 0, 1 or -1.
InvAliasedReached ==
    /\ pc = "done"
    /\ call.op = "PrimeInv"
    /\ call.dest = call.lhs
    /\ FromMont(pre.cell[L].v) \notin {0, 1, p - 1}

====
